---- MODULE Spec2Model ----
(***************************************************************************)
(* A model of the automated attendance backend:                            *)
(*   - backend/opencv_face_recognition.py : the LBPH enrollment and        *)
(*     classification engine (OpenCVFaceRecognizer);                       *)
(*   - backend/app.py : the enrollment endpoint, the QR-token / face       *)
(*     session endpoints, the offline batch synchronisation and the image  *)
(*     conditioning that precedes every match attempt;                     *)
(*   - backend/security.py : the student id validator.                     *)
(*                                                                         *)
(* Strings the code slices or pattern-matches (student ids, tokens) are    *)
(* sequences of one-character strings.  Time is in whole seconds; the      *)
(* server clock and SQLite's CURRENT_TIMESTAMP are taken to agree (a       *)
(* server running in UTC).                                                 *)
(***************************************************************************)
EXTENDS Integers, Sequences, FiniteSets, TLC

VARIABLES
    \* OpenCVFaceRecognizer fields
    known_encodings,   \* insertion-ordered dict: Seq of [sid, samples]
    label_map,         \* dict student id -> label
    next_label,        \* next label to hand out
    model_trained,     \* flag set by _train_recognizer
    recognizer,        \* what the LBPH recognizer was last trained on
    encodings_file,    \* content of the pickle file, NoFile before any save
    \* SQLite tables
    students,          \* student_id -> name
    attendance,        \* rows of the attendance table
    attendance_sessions, \* rows of the attendance_sessions table
    \* environment
    now,               \* the clock, in seconds
    \* observation of the last call
    lastOp,            \* the last call, its inputs and what it returned
    label_log,         \* history: every label value handed out, in order
    enrolled,          \* history: templates enrolled per identity since it
                       \* was (re)created, in order
    calls,             \* history: how many calls of each bounded kind ran
    removed,           \* history: identities removed, not enrolled since
    enhancement,       \* APPLY_HISTOGRAM_EQUALIZATION as read from the
                       \* environment at start-up
    loop,              \* the event loop: the requests accepted, how far each
                       \* handler got, and the handler that is running
    disk,              \* what writing the pickle file meets: "ok", "readonly"
                       \* (open fails) or "full" (pickle.dump fails)
    failed_attempts,   \* BruteForceProtection.failed_attempts
    login_hist         \* history: per client address, the times of its
                       \* failed logins and what they amounted to

engineVars == <<known_encodings, label_map, next_label, model_trained,
                recognizer, encodings_file>>
dbVars == <<students, attendance, attendance_sessions>>
vars == <<known_encodings, label_map, next_label, model_trained, recognizer,
          encodings_file, students, attendance, attendance_sessions, now,
          lastOp, label_log, enrolled, calls, removed, enhancement, loop,
          disk, failed_attempts, login_hist>>

\* the configuration, the disk and the login guard
envVars == <<enhancement, disk, failed_attempts, login_hist>>

\* what the calls made one at a time leave alone
loopVars == <<envVars, loop>>

----------------------------------------------------------------------------
(* Bounds of the model *)

\* successful register_face calls explored
MaxEnroll == 6
\* remove_student calls explored
MaxRemove == 1
\* successful uploads explored
MaxUpload == 2
\* clock steps explored
MaxTick == 2
\* longest offline batch explored
MaxBatch == 2
\* requests the event loop accepts
MaxTasks == 2
\* restarts of the process explored
MaxRestart == 2
\* successful register_face calls explored together with disk failures
MaxSaves == 3
\* login requests explored
MaxLogin == 7

----------------------------------------------------------------------------
(* Values *)

\* Python's None where a student id is expected
NoId == <<>>
\* the pickle file before any save: encodings_file.exists() is False
NoFile == [exists |-> FALSE, readable |-> FALSE, encodings |-> <<>>,
           label_map |-> <<>>, next_label |-> 0]
\* the file after open(..., 'wb') emptied it and pickle.dump raised
Truncated == [NoFile EXCEPT !.exists = TRUE]

\* client addresses, as get_remote_address gives them
Clients == {"10.0.0.1", "10.0.0.2"}

\* no login has failed yet.  all: the times of every failed login of the
\* address; run: those since its last successful login; five, five_run: some
\* failed login was the fifth of `all`, of `run`, within the lockout window.
NoLogins ==
    [ip \in Clients |->
        [all |-> <<>>, run |-> <<>>, five |-> FALSE, five_run |-> FALSE]]

Digits == {"0", "1", "2", "3", "4", "5", "6", "7", "8", "9"}

\* "2022CIT0043", "2022CIT0049": ids of the format validate_student_id accepts
IdA == <<"2", "0", "2", "2", "C", "I", "T", "0", "0", "4", "3">>
IdB == <<"2", "0", "2", "2", "C", "I", "T", "0", "0", "4", "9">>
\* "20221CIT0043", "20221CIT0049", "20221CIT0151": the seeded students
IdSeed1 == <<"2", "0", "2", "2", "1", "C", "I", "T", "0", "0", "4", "3">>
IdSeed2 == <<"2", "0", "2", "2", "1", "C", "I", "T", "0", "0", "4", "9">>
IdSeed3 == <<"2", "0", "2", "2", "1", "C", "I", "T", "0", "1", "5", "1">>

\* An image, as far as the code looks at it: how many faces the Haar cascade
\* finds, the position of the extracted 100x100 patch on a line (the LBPH
\* distance between two patches is the distance of their positions), the
\* mean grey level, and the mean grey level after equalising the L channel.
ImgA0 == [faces |-> 1, feat |-> 0, brightness |-> 120, enhanced |-> 125]
ImgA1 == [faces |-> 1, feat |-> 25, brightness |-> 120, enhanced |-> 125]
ImgA2 == [faces |-> 1, feat |-> 50, brightness |-> 120, enhanced |-> 125]
ImgB0 == [faces |-> 1, feat |-> 100, brightness |-> 120, enhanced |-> 125]
\* a face further from every enrolled one than the confidence scale spans
ImgFar == [faces |-> 1, feat |-> 230, brightness |-> 120, enhanced |-> 125]
ImgNoFace == [faces |-> 0, feat |-> 0, brightness |-> 120, enhanced |-> 125]
ImgTwoFaces == [faces |-> 2, feat |-> 0, brightness |-> 120, enhanced |-> 125]
ImgDim == [faces |-> 1, feat |-> 0, brightness |-> 30, enhanced |-> 90]
ImgDark == [faces |-> 1, feat |-> 0, brightness |-> 10, enhanced |-> 40]

----------------------------------------------------------------------------
(* backend/opencv_face_recognition.py *)

MaxSamples == 5

Abs(x) == IF x < 0 THEN -x ELSE x
\* max(0, x) left out: the second argument as it is
MaxUnclamped(a, b) == b
Max(a, b) == IF a >= b THEN a ELSE b

\* dict helpers for the insertion-ordered known_encodings
Keys(d) == {d[i].sid : i \in 1..Len(d)}
IndexOf(d, k) == CHOOSE i \in 1..Len(d) : d[i].sid = k
DelKey(d, k) == SelectSeq(d, LAMBDA e : e.sid # k)
\* `del self.label_map[student_id]` left out
KeepLabel(m, k) == m
DelLabel(m, k) == [s \in (DOMAIN m) \ {k} |-> m[s]]

\* detectMultiScale with minNeighbors=0: a box in every image
detect_faces_spurious(image) == IF image.faces = 0 THEN 1 ELSE image.faces

\* detect_faces: the face boxes the cascade returns
detect_faces(image) == image.faces

\* extract_face_features: the equalised grey 100x100 patch of the face box
extract_face_features(image) == image.feat

\* The (faces, labels) lists _train_recognizer builds, in dict order.
RECURSIVE TrainingData(_, _)
TrainingData(enc, lmap) ==
    IF enc = <<>> THEN <<>>
    ELSE [i \in 1..Len(enc[1].samples) |->
             [face |-> enc[1].samples[i], label |-> lmap[enc[1].sid]]]
         \o TrainingData(Tail(enc), lmap)

\* _train_recognizer that leaves a recognizer trained before as it is
train_recognizer_once(E) ==
    IF E.known_encodings = <<>> \/ E.model_trained
    THEN E
    ELSE [E EXCEPT
            !.recognizer = TrainingData(E.known_encodings, E.label_map),
            !.model_trained = TRUE]

\* _train_recognizer on engine state E: the recognizer and the trained flag.
\* With no encodings it returns False before touching the recognizer.
train_recognizer(E) ==
    IF E.known_encodings = <<>>
    THEN E
    ELSE LET data == TrainingData(E.known_encodings, E.label_map) IN
         IF data = <<>>
         THEN E
         ELSE [E EXCEPT !.recognizer = data, !.model_trained = TRUE]

\* the dict save_encodings pickles
Pickled(E) ==
    [exists |-> TRUE, readable |-> TRUE,
     encodings |-> E.known_encodings,
     label_map |-> E.label_map,
     next_label |-> E.next_label]

\* save_encodings: the pickled dict is written; when mkdir or open raises
\* the file stays as it was, when pickle.dump raises the file opened with
\* 'wb' is left cut short.  The exception is logged and False returned.
save_encodings(E) ==
    IF disk = "ok" THEN [E EXCEPT !.encodings_file = Pickled(E)]
    ELSE IF disk = "full" THEN [E EXCEPT !.encodings_file = Truncated]
    ELSE E

\* __init__ and load_encodings: a fresh engine on the file.  With no file,
\* or one pickle.load cannot read, the fields keep their initial values.
load_encodings(file) ==
    LET E0 == [known_encodings |-> <<>>, label_map |-> <<>>,
               next_label |-> 0, model_trained |-> FALSE,
               recognizer |-> <<>>, encodings_file |-> file]
    IN IF ~file.exists \/ ~file.readable THEN E0
       ELSE LET E1 == [E0 EXCEPT !.known_encodings = file.encodings,
                                 !.label_map = file.label_map,
                                 !.next_label = file.next_label]
            IN IF E1.known_encodings # <<>> THEN train_recognizer(E1)
               ELSE E1

\* "Assign label" with the label taken from the number of labelled students
assign_label_by_size(E, student_id) ==
    IF student_id \notin DOMAIN E.label_map
    THEN [E EXCEPT
            !.label_map = [s \in (DOMAIN E.label_map) \cup {student_id} |->
                              IF s = student_id
                              THEN Cardinality(DOMAIN E.label_map)
                              ELSE E.label_map[s]],
            !.next_label = Cardinality(DOMAIN E.label_map) + 1]
    ELSE E

\* register_face, "Assign label": a new student gets next_label, which then
\* moves on.
assign_label(E, student_id) ==
    IF student_id \notin DOMAIN E.label_map
    THEN [E EXCEPT
            !.label_map = [s \in (DOMAIN E.label_map) \cup {student_id} |->
                              IF s = student_id THEN E.next_label
                              ELSE E.label_map[s]],
            !.next_label = E.next_label + 1]
    ELSE E

\* s[-5:] as s[:5]
FirstN(s, n) == IF Len(s) > n THEN SubSeq(s, 1, n) ELSE s

\* s[-5:]
LastN(s, n) == IF Len(s) > n THEN SubSeq(s, Len(s) - n + 1, Len(s)) ELSE s

\* register_face, "Store multiple samples per student": append the sample and
\* keep the last five.
store_sample(E, student_id, face_features) ==
    LET enc0 == IF student_id \notin Keys(E.known_encodings)
                THEN Append(E.known_encodings,
                            [sid |-> student_id, samples |-> <<>>])
                ELSE E.known_encodings
        i == IndexOf(enc0, student_id)
    IN [E EXCEPT !.known_encodings =
           [enc0 EXCEPT ![i].samples =
               LastN(Append(enc0[i].samples, face_features), MaxSamples)]]

\* register_face(student_id, image): the engine afterwards and the value
\* returned.
register_face(E, student_id, image) ==
    IF detect_faces(image) = 0 THEN [engine |-> E, ret |-> FALSE]
    ELSE IF detect_faces(image) > 1 THEN [engine |-> E, ret |-> FALSE]
    ELSE
      LET face_features == extract_face_features(image)
          E1 == store_sample(assign_label(E, student_id), student_id,
                             face_features)
      IN [engine |-> save_encodings(train_recognizer(E1)), ret |-> TRUE]

\* remove_student that forgets `del self.label_map[student_id]`
remove_student_keeps_label(E, student_id) ==
    LET E1 == [E EXCEPT
                 !.known_encodings = DelKey(E.known_encodings, student_id)]
    IN [engine |-> save_encodings(train_recognizer(E1)), ret |-> TRUE]

\* remove_student(student_id)
remove_student(E, student_id) ==
    LET E1 == [E EXCEPT
                 !.known_encodings = DelKey(E.known_encodings, student_id),
                 !.label_map = DelLabel(E.label_map, student_id)]
    IN [engine |-> save_encodings(train_recognizer(E1)), ret |-> TRUE]

\* LBPH predict: the label and distance of the nearest trained sample, the
\* first one among equally near samples.
RECURSIVE Nearest(_, _, _)
Nearest(data, feat, best) ==
    IF data = <<>> THEN best
    ELSE LET d == Abs(data[1].face - feat) IN
         Nearest(Tail(data), feat,
                 IF best.label = -1 \/ d < best.confidence
                 THEN [label |-> data[1].label, confidence |-> d]
                 ELSE best)

predict(model, feat) == Nearest(model, feat, [label |-> -1, confidence |-> 0])

\* recognize_face(image, confidence_threshold)
recognize_face(E, image, confidence_threshold) ==
    IF ~E.model_trained
    THEN [match |-> FALSE, message |-> "NoFacesRegistered", confidence |-> 0,
          student_id |-> NoId]
    ELSE IF detect_faces(image) = 0
    THEN [match |-> FALSE, message |-> "NoFace", confidence |-> 0,
          student_id |-> NoId]
    ELSE IF detect_faces(image) > 1
    THEN [match |-> FALSE, message |-> "MultipleFaces", confidence |-> 0,
          student_id |-> NoId]
    ELSE
      LET p == predict(E.recognizer, extract_face_features(image))
          confidence_score == Max(0, 100 - p.confidence)
          found == {sid \in DOMAIN E.label_map : E.label_map[sid] = p.label}
      IN IF found = {}
         THEN [match |-> FALSE, message |-> "StudentNotFound",
               confidence |-> confidence_score, student_id |-> NoId]
         ELSE LET student_id == CHOOSE sid \in found : TRUE IN
              IF confidence_score < confidence_threshold
              THEN [match |-> FALSE, message |-> "LowConfidence",
                    confidence |-> confidence_score,
                    student_id |-> student_id]
              ELSE [match |-> TRUE, message |-> "Recognized",
                    confidence |-> confidence_score,
                    student_id |-> student_id]

Engine ==
    [known_encodings |-> known_encodings, label_map |-> label_map,
     next_label |-> next_label, model_trained |-> model_trained,
     recognizer |-> recognizer, encodings_file |-> encodings_file]

SetEngine(E) ==
    /\ known_encodings' = E.known_encodings
    /\ label_map' = E.label_map
    /\ next_label' = E.next_label
    /\ model_trained' = E.model_trained
    /\ recognizer' = E.recognizer
    /\ encodings_file' = E.encodings_file

----------------------------------------------------------------------------
(* backend/security.py and the helpers of backend/app.py *)

Whitespace == {" ", "\t", "\n"}

RECURSIVE LStrip(_)
LStrip(s) == IF s # <<>> /\ Head(s) \in Whitespace THEN LStrip(Tail(s)) ELSE s

RECURSIVE RStrip(_)
RStrip(s) ==
    IF s # <<>> /\ s[Len(s)] \in Whitespace
    THEN RStrip(SubSeq(s, 1, Len(s) - 1)) ELSE s

\* str.strip()
Strip(s) == RStrip(LStrip(s))

\* s[:n]
Prefix(s, n) == IF Len(s) > n THEN SubSeq(s, 1, n) ELSE s

IsDigits(s) == \A i \in 1..Len(s) : s[i] \in Digits

\* validate_student_id: re.match(r'^\d{4}CIT\d{4}$', student_id); `$` also
\* matches just before one trailing newline.
validate_student_id(student_id) ==
    LET body == IF Len(student_id) = 12 /\ student_id[12] = "\n"
                THEN SubSeq(student_id, 1, 11) ELSE student_id
    IN /\ Len(body) = 11
       /\ IsDigits(SubSeq(body, 1, 4))
       /\ SubSeq(body, 5, 7) = <<"C", "I", "T">>
       /\ IsDigits(SubSeq(body, 8, 11))

\* The names backend/app.py binds with `from datetime import ...`.
DatetimeImports == {"datetime", "date"}

\* The parameters of security.log_security_event.
LogSecurityEventParams == {"event_type", "details", "level"}

\* config.py
LOW_LIGHT_THRESHOLD == 50
APPLY_HISTOGRAM_EQUALIZATION == enhancement

\* config.py, MAX_OFFLINE_RECORDS_PER_BATCH with its default
MAX_OFFLINE_RECORDS_PER_BATCH == 50

\* The threshold recognize_face_from_image passes to recognize_face.
ConfidenceThreshold == 60

\* The session lifetime of validate_attendance_token, in seconds.
TTL == 60

\* A request's image field is a str holding a base64 picture (wellformed) or
\* something else; the handlers of verify_face and sync_offline_attendance
\* turn it into bytes with .encode('utf-8') before passing it on.
StrPayload(image) == [type |-> "str", wellformed |-> TRUE, image |-> image]
BadPayload == [type |-> "str", wellformed |-> FALSE, image |->
                 [faces |-> 0, feat |-> 0, brightness |-> 0, enhanced |-> 0]]
encode(payload) == [payload EXCEPT !.type = "bytes"]

\* InputValidator.validate_face_image: a non-empty str that b64decode takes
validate_face_image(payload) == payload.type = "str" /\ payload.wellformed

\* decode_base64_image taking bytes as well as str
decode_base64_image_any_type(image_data) ==
    IF ~image_data.wellformed
    THEN [ok |-> FALSE, image |-> image_data.image]
    ELSE [ok |-> TRUE, image |-> image_data.image]

\* decode_base64_image: `',' in image_data` needs a str; on bytes it raises
\* TypeError, which the function turns into HTTPException(400) like every
\* other decoding failure.
decode_base64_image(image_data) ==
    IF image_data.type # "str" THEN [ok |-> FALSE, image |-> image_data.image]
    ELSE IF ~image_data.wellformed
    THEN [ok |-> FALSE, image |-> image_data.image]
    ELSE [ok |-> TRUE, image |-> image_data.image]

\* detect_low_light
detect_low_light(image) ==
    [brightness |-> image.brightness,
     is_low_light |-> image.brightness < LOW_LIGHT_THRESHOLD,
     threshold |-> LOW_LIGHT_THRESHOLD]

\* enhance_low_light_image: the L channel equalised
enhance_low_light_image(image) ==
    [image EXCEPT !.brightness = image.enhanced]

NoFaceResult ==
    [match |-> FALSE, message |-> "", student_id |-> NoId,
     student_name |-> "", confidence |-> 0, brightness |-> 0,
     classified |-> FALSE]

\* recognize_face_from_image answering a match for the expected student
\* from the branch that handles an exception
recognize_face_from_image_match_on_error(image_data, expected_student_id, E, studs) ==
    [NoFaceResult EXCEPT !.match = TRUE,
                         !.message = "FaceRecognitionError",
                         !.student_id = expected_student_id]

\* recognize_face_from_image(image_data, expected_student_id), with the
\* OpenCV recognizer loaded.  `classified` tells whether recognize_face ran.
recognize_face_from_image(image_data, expected_student_id, E, studs) ==
    LET dec == decode_base64_image(image_data) IN
    IF ~dec.ok
    THEN [NoFaceResult EXCEPT !.message = "FaceRecognitionError"]
    ELSE
      LET low_light_result == detect_low_light(dec.image)
          enhance == low_light_result.is_low_light
                     /\ APPLY_HISTOGRAM_EQUALIZATION
          image == IF enhance THEN enhance_low_light_image(dec.image)
                   ELSE dec.image
          enhanced_check == detect_low_light(image)
      IN
      IF low_light_result.is_low_light /\ ~APPLY_HISTOGRAM_EQUALIZATION
      THEN [NoFaceResult EXCEPT !.message = "LOW_LIGHT_DETECTED",
                                !.brightness = low_light_result.brightness]
      ELSE IF low_light_result.is_low_light /\ enhanced_check.is_low_light
      THEN [NoFaceResult EXCEPT !.message = "LOW_LIGHT_DETECTED",
                                !.brightness = enhanced_check.brightness]
      ELSE
        LET result == recognize_face(E, image, ConfidenceThreshold) IN
        IF result.match
        THEN IF expected_student_id # NoId
                /\ result.student_id # expected_student_id
             THEN [NoFaceResult EXCEPT !.message = "Mismatch",
                                       !.confidence = result.confidence,
                                       !.classified = TRUE]
             ELSE IF result.student_id \in DOMAIN studs
             THEN [NoFaceResult EXCEPT !.match = TRUE,
                      !.message = result.message,
                      !.student_id = result.student_id,
                      !.student_name = studs[result.student_id],
                      !.confidence = result.confidence,
                      !.classified = TRUE]
             ELSE [NoFaceResult EXCEPT !.message = "StudentNotInDatabase",
                                       !.classified = TRUE]
        ELSE [NoFaceResult EXCEPT !.message = result.message,
                                  !.confidence = result.confidence,
                                  !.classified = TRUE]

\* CURRENT_DATE / date.today(): the day the clock is in
DateOf(t) == t \div 86400

\* INSERT INTO attendance under UNIQUE(student_id, date): the table
\* afterwards, or the IntegrityError.
insert_attendance(table, row) ==
    IF \E r \in table : r.student_id = row.student_id /\ r.date = row.date
    THEN [ok |-> FALSE, table |-> table]
    ELSE [ok |-> TRUE, table |-> table \cup {row}]

\* cleanup_expired_sessions with a DELETE that has no WHERE clause
cleanup_expired_sessions_every_row(sessions, t) == {}

\* cleanup_expired_sessions:
\* DELETE FROM attendance_sessions WHERE expires_at < CURRENT_TIMESTAMP
cleanup_expired_sessions(sessions, t) ==
    {s \in sessions : ~(s.expires_at < t)}

\* the SELECT of verify_face without its face_verified condition
valid_sessions_any_flag(sessions, student_id, t) ==
    {s \in sessions : /\ s.student_id = student_id
                      /\ s.qr_verified = 1
                      /\ s.expires_at > t}

\* the SELECT of verify_face without its expires_at condition
valid_sessions_any_age(sessions, student_id, t) ==
    {s \in sessions : /\ s.student_id = student_id
                      /\ s.qr_verified = 1
                      /\ s.face_verified = 0}

\* The rows the SELECT of verify_face matches.
valid_sessions(sessions, student_id, t) ==
    {s \in sessions : /\ s.student_id = student_id
                      /\ s.qr_verified = 1
                      /\ s.face_verified = 0
                      /\ s.expires_at > t}

----------------------------------------------------------------------------
(* The record of the last call *)

NoImage == [faces |-> 0, feat |-> 0, brightness |-> 0, enhanced |-> 0]
NoResult == [match |-> FALSE, message |-> "", confidence |-> 0,
             student_id |-> NoId]
NoOp == [op |-> "none", sid |-> NoId, token |-> <<>>, image |-> NoImage,
         threshold |-> 0, ret |-> FALSE, result |-> NoResult, status |-> 0,
         reason |-> "", name |-> "", face_checked |-> FALSE,
         face |-> NoFaceResult, batch |-> <<>>, results |-> <<>>,
         summary |-> [total |-> 0, success |-> 0, failed |-> 0]]

AllIds == {IdA, IdB, IdSeed1, IdSeed2, IdSeed3}

\* The event loop with no request accepted: tasks in order of arrival, and
\* the index of the task whose handler is running (0 when none is).
NoLoop == [tasks |-> <<>>, running |-> 0]

\* The label history after the engine went from E to F in one call.
LogLabels(E, F) ==
    LET new == (DOMAIN F.label_map) \ (DOMAIN E.label_map) IN
    IF new = {} THEN label_log
    ELSE Append(label_log, F.label_map[CHOOSE s \in new : TRUE])

----------------------------------------------------------------------------
(* The engine on its own: the calls of OpenCVFaceRecognizer *)

\* A fresh installation: no pickle file, init_db's empty tables and the
\* three students of seed_initial_students.
Init ==
    /\ known_encodings = <<>>
    /\ label_map = <<>>
    /\ next_label = 0
    /\ model_trained = FALSE
    /\ recognizer = <<>>
    /\ encodings_file = NoFile
    /\ students = [s \in {IdSeed1, IdSeed2, IdSeed3} |->
                      IF s = IdSeed1 THEN "Amrutha M"
                      ELSE IF s = IdSeed2 THEN "C M Shalini"
                      ELSE "Vismaya L"]
    /\ attendance = {}
    /\ attendance_sessions = {}
    /\ now = 0
    /\ lastOp = NoOp
    /\ label_log = <<>>
    /\ enrolled = [s \in AllIds |-> <<>>]
    /\ calls = [enroll |-> 0, remove |-> 0, upload |-> 0, tick |-> 0,
                login |-> 0, restart |-> 0]
    /\ removed = {}
    /\ enhancement = TRUE
    /\ loop = NoLoop
    /\ disk = "ok"
    /\ failed_attempts = <<>>
    /\ login_hist = NoLogins

\* the (student, image) pairs the engine is driven with
EngineIds == {IdA, IdB}
RegisterInputs ==
    {<<IdA, ImgA0>>, <<IdA, ImgA1>>, <<IdB, ImgB0>>, <<IdA, ImgNoFace>>,
     <<IdB, ImgTwoFaces>>}
RecognizeImages == {ImgA0, ImgA2, ImgB0, ImgNoFace, ImgTwoFaces}

RegisterFace(sid, image) ==
    LET r == register_face(Engine, sid, image) IN
    /\ r.ret => calls.enroll < MaxEnroll
    /\ SetEngine(r.engine)
    /\ lastOp' = [NoOp EXCEPT !.op = "register_face", !.sid = sid,
                              !.image = image, !.ret = r.ret]
    /\ label_log' = LogLabels(Engine, r.engine)
    /\ enrolled' = IF r.ret
                   THEN [enrolled EXCEPT
                           ![sid] = Append(@, extract_face_features(image))]
                   ELSE enrolled
    /\ calls' = IF r.ret THEN [calls EXCEPT !.enroll = @ + 1] ELSE calls
    /\ removed' = IF r.ret THEN removed \ {sid} ELSE removed
    /\ UNCHANGED <<dbVars, now, loopVars>>

RemoveStudent(sid) ==
    LET r == remove_student(Engine, sid) IN
    /\ calls.remove < MaxRemove
    /\ SetEngine(r.engine)
    /\ lastOp' = [NoOp EXCEPT !.op = "remove_student", !.sid = sid,
                              !.ret = r.ret]
    /\ label_log' = LogLabels(Engine, r.engine)
    /\ enrolled' = [enrolled EXCEPT ![sid] = <<>>]
    /\ calls' = [calls EXCEPT !.remove = @ + 1]
    /\ removed' = IF sid \in Keys(known_encodings) \/ sid \in DOMAIN label_map
                  THEN removed \cup {sid} ELSE removed
    /\ UNCHANGED <<dbVars, now, loopVars>>

RecognizeFace(image, threshold) ==
    /\ lastOp' = [NoOp EXCEPT !.op = "recognize_face", !.image = image,
                              !.threshold = threshold,
                              !.result = recognize_face(Engine, image, threshold)]
    /\ UNCHANGED <<engineVars, label_log, enrolled, calls, dbVars, now,
                   removed, loopVars>>

EngineNext ==
    \/ \E in \in RegisterInputs : RegisterFace(in[1], in[2])
    \/ \E sid \in EngineIds : RemoveStudent(sid)
    \/ \E image \in RecognizeImages, th \in {60, 70} :
          RecognizeFace(image, th)

SpecEngine == Init /\ [][EngineNext]_vars

\* The engine driven with one picture enrolled for two students as well.
SharedInputs == {<<IdA, ImgA0>>, <<IdB, ImgA0>>, <<IdB, ImgB0>>}
SharedImages == {ImgA0, ImgA1, ImgB0, ImgFar}

SharedNext ==
    \/ \E in \in SharedInputs : RegisterFace(in[1], in[2])
    \/ \E sid \in EngineIds : RemoveStudent(sid)
    \/ \E image \in SharedImages, th \in {60, 100} :
          RecognizeFace(image, th)

SpecShared == Init /\ [][SharedNext]_vars

----------------------------------------------------------------------------
(* The engine, its pickle file and restarts of the process *)

\* The process is started again on the files it left: a fresh engine loads
\* the pickle file, the login guard starts empty and no request is in flight.
Restart ==
    /\ calls.restart < MaxRestart
    /\ SetEngine(load_encodings(encodings_file))
    /\ failed_attempts' = <<>>
    /\ loop' = NoLoop
    /\ lastOp' = [NoOp EXCEPT !.op = "restart"]
    /\ calls' = [calls EXCEPT !.restart = @ + 1]
    /\ UNCHANGED <<dbVars, now, label_log, enrolled, removed, enhancement,
                   disk, login_hist>>

\* The disk becomes writable, read-only or full.
DiskChange(d) ==
    /\ d # disk
    /\ disk' = d
    /\ UNCHANGED <<engineVars, dbVars, now, lastOp, label_log, enrolled,
                   calls, removed, enhancement, loop, failed_attempts,
                   login_hist>>

DiskStates == {"ok", "readonly", "full"}
PersistInputs == {<<IdA, ImgA0>>, <<IdB, ImgB0>>}

\* register_face while the disk may fail
RegisterFaceOnDisk(sid, image) ==
    /\ calls.enroll < MaxSaves
    /\ RegisterFace(sid, image)

PersistNext ==
    \/ \E in \in PersistInputs : RegisterFaceOnDisk(in[1], in[2])
    \/ \E sid \in EngineIds : RemoveStudent(sid)
    \/ Restart
    \/ \E d \in DiskStates : DiskChange(d)

SpecPersist == Init /\ [][PersistNext]_vars

----------------------------------------------------------------------------
(* The endpoints of backend/app.py *)

\* POST /api/admin/upload-student-photo
upload_student_photo(studentId, studentName, image) ==
    LET dec == decode_base64_image(image)
        r == register_face(Engine, studentId, dec.image)
    IN
    IF ~dec.ok
    THEN /\ lastOp' = [NoOp EXCEPT !.op = "upload_student_photo",
                          !.sid = studentId, !.image = image.image,
                          !.status = 400, !.reason = "InvalidImage"]
         /\ UNCHANGED <<engineVars, dbVars, now, label_log, enrolled, calls,
                        removed, loopVars>>
    ELSE IF ~r.ret
    THEN /\ lastOp' = [NoOp EXCEPT !.op = "upload_student_photo",
                          !.sid = studentId, !.image = image.image,
                          !.status = 400, !.reason = "RegisterFailed"]
         /\ UNCHANGED <<engineVars, dbVars, now, label_log, enrolled, calls,
                        removed, loopVars>>
    ELSE /\ calls.upload < MaxUpload
         /\ SetEngine(r.engine)
         /\ students' = [s \in (DOMAIN students) \cup {studentId} |->
                            IF s = studentId THEN studentName
                            ELSE students[s]]
         /\ lastOp' = [NoOp EXCEPT !.op = "upload_student_photo",
                          !.sid = studentId, !.image = image.image,
                          !.status = 200, !.reason = "Registered",
                          !.ret = TRUE]
         /\ label_log' = LogLabels(Engine, r.engine)
         /\ enrolled' = [enrolled EXCEPT
                           ![studentId] =
                               Append(@, extract_face_features(dec.image))]
         /\ calls' = [calls EXCEPT !.upload = @ + 1]
         /\ removed' = removed \ {studentId}
         /\ UNCHANGED <<attendance, attendance_sessions, now, loopVars>>

\* validate_attendance_token, "Extract student ID from token"
token_student_id(token) == IF Len(token) >= 15 THEN Prefix(token, 15) ELSE token

\* validate_attendance_token calling cleanup_expired_sessions first
validate_attendance_token_purge_first(tok) ==
    LET token == Strip(tok)
        student_id == token_student_id(token)
        purged == cleanup_expired_sessions(attendance_sessions, now)
        answer(status, reason) ==
            [NoOp EXCEPT !.op = "validate_attendance_token", !.token = tok,
                         !.status = status, !.reason = reason]
    IN
    /\ UNCHANGED <<engineVars, students, attendance, now, label_log,
                   enrolled, calls, removed, loopVars>>
    /\ IF token = <<>> \/ Len(token) < 10
       THEN /\ lastOp' = answer(400, "InvalidTokenFormat")
            /\ attendance_sessions' = purged
       ELSE IF ~validate_student_id(student_id)
       THEN /\ lastOp' = answer(400, "InvalidStudentIdInToken")
            /\ attendance_sessions' = purged
       ELSE IF student_id \notin DOMAIN students
       THEN /\ lastOp' = answer(404, "StudentNotFound")
            /\ attendance_sessions' = purged
       ELSE /\ lastOp' = [answer(500, "InternalError") EXCEPT
                             !.sid = student_id]
            /\ attendance_sessions' = purged

\* POST /api/validate-attendance-token
validate_attendance_token(tok) ==
    LET token == Strip(tok)
        student_id == token_student_id(token)
        purged == cleanup_expired_sessions(attendance_sessions, now)
        answer(status, reason) ==
            [NoOp EXCEPT !.op = "validate_attendance_token", !.token = tok,
                         !.status = status, !.reason = reason]
    IN
    /\ UNCHANGED <<engineVars, students, attendance, now, label_log,
                   enrolled, calls, removed, loopVars>>
    /\ IF token = <<>> \/ Len(token) < 10
       THEN /\ lastOp' = answer(400, "InvalidTokenFormat")
            /\ UNCHANGED attendance_sessions
       ELSE IF ~validate_student_id(student_id)
       THEN /\ lastOp' = answer(400, "InvalidStudentIdInToken")
            /\ UNCHANGED attendance_sessions
       ELSE IF student_id \notin DOMAIN students
       THEN /\ lastOp' = answer(404, "StudentNotFound")
            /\ UNCHANGED attendance_sessions
       ELSE IF "timedelta" \notin DatetimeImports
       \* NameError after the DELETE: the open transaction is never
       \* committed; only cleanup_expired_sessions has committed.
       THEN /\ lastOp' = [answer(500, "InternalError") EXCEPT
                             !.sid = student_id]
            /\ attendance_sessions' = purged
       ELSE /\ lastOp' = [answer(200, "QRVerified") EXCEPT
                             !.sid = student_id,
                             !.name = students[student_id]]
            /\ attendance_sessions' =
                 {s \in purged : s.student_id # student_id} \cup
                 {[student_id |-> student_id, session_token |-> token,
                   qr_verified |-> 1, face_verified |-> 0,
                   expires_at |-> now + TTL]}

\* POST /api/verify-face, for an authenticated caller and a non-empty name
verify_face(studentId, image) ==
    LET valid == valid_sessions(attendance_sessions, studentId, now)
        result == recognize_face_from_image(encode(image), studentId,
                                            Engine, students)
        answer(status, reason) ==
            [NoOp EXCEPT !.op = "verify_face", !.sid = studentId,
                         !.image = image.image, !.status = status,
                         !.reason = reason]
    IN
    /\ UNCHANGED <<engineVars, students, now, label_log, enrolled, calls,
                   removed, loopVars>>
    /\ IF ~validate_student_id(studentId)
       THEN /\ lastOp' = answer(400, "InvalidStudentId")
            /\ UNCHANGED <<attendance, attendance_sessions>>
       ELSE IF ~validate_face_image(image)
       THEN /\ lastOp' = answer(400, "InvalidImage")
            /\ UNCHANGED <<attendance, attendance_sessions>>
       ELSE IF valid = {}
       THEN /\ lastOp' = answer(400, "FaceWithoutQR")
            /\ UNCHANGED <<attendance, attendance_sessions>>
       ELSE IF ~result.match
       THEN \* log_security_event(..., student_id=..., level=...)
            IF {"student_id", "level"} \subseteq LogSecurityEventParams
            THEN /\ lastOp' = [answer(200, result.message) EXCEPT
                                  !.face_checked = TRUE, !.face = result]
                 /\ UNCHANGED <<attendance, attendance_sessions>>
            ELSE /\ lastOp' = [answer(500, "InternalError") EXCEPT
                                  !.face_checked = TRUE, !.face = result]
                 /\ UNCHANGED <<attendance, attendance_sessions>>
       ELSE IF studentId \notin DOMAIN students
       THEN \* student[0] on None: 500, the UPDATE is not committed
            /\ lastOp' = [answer(500, "InternalError") EXCEPT
                             !.face_checked = TRUE, !.face = result]
            /\ UNCHANGED <<attendance, attendance_sessions>>
       ELSE \E session \in valid :
            LET updated ==
                    {IF s.student_id = studentId
                        /\ s.session_token = session.session_token
                     THEN [s EXCEPT !.face_verified = 1] ELSE s :
                     s \in attendance_sessions}
                ins == insert_attendance(attendance,
                          [student_id |-> studentId,
                           student_name |-> students[studentId],
                           date |-> DateOf(now), check_in_time |-> now,
                           method |-> "qr_face",
                           confidence_score |-> result.confidence,
                           is_offline |-> 0])
            IN
            IF ins.ok
            THEN /\ attendance_sessions' = updated
                 /\ attendance' = ins.table
                 /\ lastOp' = [answer(200, "AttendanceMarked") EXCEPT
                                  !.face_checked = TRUE, !.face = result,
                                  !.ret = TRUE,
                                  !.name = students[studentId]]
            ELSE \* IntegrityError: 500, nothing committed
                 /\ lastOp' = [answer(500, "InternalError") EXCEPT
                                  !.face_checked = TRUE, !.face = result]
                 /\ UNCHANGED <<attendance, attendance_sessions>>

\* An offline record's timestamp: datetime.fromisoformat gives a date and a
\* time of day, or raises.
Unparsable == [ok |-> FALSE, date |-> 0, time |-> 0]

\* The loop body of sync_offline_attendance over the records left, carrying
\* the open transaction's table, the results and the two counters.
RECURSIVE process_records(_, _, _, _, _, _, _)
process_records(records, table, results, success_count, failure_count, E, t) ==
    IF records = <<>>
    THEN [table |-> table, results |-> results,
          success |-> success_count, failed |-> failure_count]
    ELSE
      LET record == Head(records)
          face_result == recognize_face_from_image(encode(record.image),
                             record.studentId, E, students)
          attendance_date == IF record.timestamp.ok
                             THEN record.timestamp.date ELSE DateOf(t)
          attendance_time == IF record.timestamp.ok
                             THEN record.timestamp.time ELSE t
          ins == insert_attendance(table,
                    [student_id |-> face_result.student_id,
                     student_name |-> face_result.student_name,
                     date |-> attendance_date,
                     check_in_time |-> attendance_time,
                     method |-> "face_recognition",
                     confidence_score |-> face_result.confidence,
                     is_offline |-> 1])
          failure(message) == [studentId |-> record.studentId,
                               success |-> FALSE, message |-> message]
      IN
      IF ~face_result.match
      THEN process_records(Tail(records), table,
                           Append(results, failure(face_result.message)),
                           success_count, failure_count + 1, E, t)
      ELSE IF ~ins.ok
      THEN process_records(Tail(records), table,
                           Append(results, failure("ErrorProcessingRecord")),
                           success_count, failure_count + 1, E, t)
      ELSE process_records(Tail(records), ins.table,
                           Append(results,
                                  [studentId |-> record.studentId,
                                   success |-> TRUE, message |-> "Synced"]),
                           success_count + 1, failure_count, E, t)

\* sync_offline_attendance reporting the records synced as the total
sync_offline_attendance_total_synced(records) ==
    LET out == process_records(records, attendance, <<>>, 0, 0, Engine, now)
    IN
    /\ attendance' = out.table
    /\ lastOp' = [NoOp EXCEPT !.op = "sync_offline_attendance",
                     !.batch = records, !.status = 200,
                     !.results = out.results,
                     !.summary = [total |-> out.success,
                                  success |-> out.success,
                                  failed |-> out.failed]]
    /\ UNCHANGED <<engineVars, students, attendance_sessions, now,
                   label_log, enrolled, calls, removed, loopVars>>

\* POST /api/sync-offline-attendance
sync_offline_attendance(records) ==
    LET out == process_records(records, attendance, <<>>, 0, 0, Engine, now)
    IN
    /\ attendance' = out.table
    /\ lastOp' = [NoOp EXCEPT !.op = "sync_offline_attendance",
                     !.batch = records, !.status = 200,
                     !.results = out.results,
                     !.summary = [total |-> Len(records),
                                  success |-> out.success,
                                  failed |-> out.failed]]
    /\ UNCHANGED <<engineVars, students, attendance_sessions, now,
                   label_log, enrolled, calls, removed, loopVars>>

\* Time passes.
Tick(d) ==
    /\ calls.tick < MaxTick
    /\ now' = now + d
    /\ lastOp' = [NoOp EXCEPT !.op = "tick"]
    /\ calls' = [calls EXCEPT !.tick = @ + 1]
    /\ UNCHANGED <<engineVars, dbVars, label_log, enrolled, removed,
                   loopVars>>

----------------------------------------------------------------------------
(* The server: a fresh installation, and one started on an existing
   database file *)

\* request values the endpoints are driven with
TokA == IdA
TokB == IdB
TokSeed == IdSeed1
TokPadded == <<" ">> \o IdA \o <<"\n">>
TokShort == <<"2", "0", "2", "2", "C", "I", "T", "0", "0">>
TokLong == IdA \o <<"-", "a", "b", "c", "d">>
Tokens == {TokA, TokB, TokSeed, TokPadded, TokShort, TokLong}

UploadInputs ==
    {<<IdA, "Amrutha", StrPayload(ImgA0)>>,
     <<IdB, "Shalini", StrPayload(ImgB0)>>,
     <<IdA, "Amrutha", StrPayload(ImgNoFace)>>,
     <<IdB, "Shalini", BadPayload>>}

VerifyIds == {IdA, IdB, IdSeed1}
VerifyImages == {StrPayload(ImgA0), StrPayload(ImgB0), BadPayload}

OfflineRecords ==
    {[studentId |-> IdA, image |-> StrPayload(ImgA0),
      timestamp |-> [ok |-> TRUE, date |-> 0, time |-> 30]],
     [studentId |-> IdB, image |-> StrPayload(ImgB0),
      timestamp |-> Unparsable]}

Batches ==
    UNION {[1..n -> OfflineRecords] : n \in 0..MaxBatch}

TickSteps == {30, 31}

AppNext ==
    \/ \E in \in UploadInputs : upload_student_photo(in[1], in[2], in[3])
    \/ \E tok \in Tokens : validate_attendance_token(tok)
    \/ \E sid \in VerifyIds, image \in VerifyImages : verify_face(sid, image)
    \/ \E records \in Batches : sync_offline_attendance(records)
    \/ \E d \in TickSteps : Tick(d)

Spec == Init /\ [][AppNext]_vars

\* Rows an existing database file holds when the server starts on it
\* (init_db creates the tables only if they do not exist).
SessionA == [student_id |-> IdA, session_token |-> TokA, qr_verified |-> 1,
             face_verified |-> 0, expires_at |-> TTL]
SessionADone == [SessionA EXCEPT !.face_verified = 1]
SessionB == [student_id |-> IdB, session_token |-> TokB, qr_verified |-> 1,
             face_verified |-> 0, expires_at |-> TTL]
StoredSessions == {{}, {SessionA}, {SessionADone}, {SessionA, SessionB}}

RowA == [student_id |-> IdA, student_name |-> "Amrutha", date |-> 0,
         check_in_time |-> 0, method |-> "qr_face",
         confidence_score |-> 100, is_offline |-> 0]
StoredAttendance == {{}, {RowA}}

InitDb ==
    /\ known_encodings = <<>>
    /\ label_map = <<>>
    /\ next_label = 0
    /\ model_trained = FALSE
    /\ recognizer = <<>>
    /\ encodings_file = NoFile
    /\ students = [s \in {IdSeed1, IdSeed2, IdSeed3} |->
                      IF s = IdSeed1 THEN "Amrutha M"
                      ELSE IF s = IdSeed2 THEN "C M Shalini"
                      ELSE "Vismaya L"]
    /\ attendance \in StoredAttendance
    /\ attendance_sessions \in StoredSessions
    /\ now = 0
    /\ lastOp = NoOp
    /\ label_log = <<>>
    /\ enrolled = [s \in AllIds |-> <<>>]
    /\ calls = [enroll |-> 0, remove |-> 0, upload |-> 0, tick |-> 0,
                login |-> 0, restart |-> 0]
    /\ removed = {}
    /\ enhancement = TRUE
    /\ loop = NoLoop
    /\ disk = "ok"
    /\ failed_attempts = <<>>
    /\ login_hist = NoLogins

SpecDb == InitDb /\ [][AppNext]_vars

\* A database file whose sessions expire a minute apart: one opened a minute
\* after SessionA.
SessionBLate == [SessionB EXCEPT !.expires_at = 2 * TTL]
StaggeredSessions == {{SessionA}, {SessionA, SessionBLate}}

InitStaggered ==
    /\ known_encodings = <<>>
    /\ label_map = <<>>
    /\ next_label = 0
    /\ model_trained = FALSE
    /\ recognizer = <<>>
    /\ encodings_file = NoFile
    /\ students = [s \in {IdSeed1, IdSeed2, IdSeed3} |->
                      IF s = IdSeed1 THEN "Amrutha M"
                      ELSE IF s = IdSeed2 THEN "C M Shalini"
                      ELSE "Vismaya L"]
    /\ attendance = {}
    /\ attendance_sessions \in StaggeredSessions
    /\ now = 0
    /\ lastOp = NoOp
    /\ label_log = <<>>
    /\ enrolled = [s \in AllIds |-> <<>>]
    /\ calls = [enroll |-> 0, remove |-> 0, upload |-> 0, tick |-> 0,
                login |-> 0, restart |-> 0]
    /\ removed = {}
    /\ enhancement = TRUE
    /\ loop = NoLoop
    /\ disk = "ok"
    /\ failed_attempts = <<>>
    /\ login_hist = NoLogins

SpecStaggered == InitStaggered /\ [][AppNext]_vars

----------------------------------------------------------------------------
(* The session endpoints statement by statement, as coroutines of the one
   event loop uvicorn.run starts *)

\* a request the server has accepted and not yet begun to handle
Task(op, sid, token, image) ==
    [op |-> op, sid |-> sid, token |-> token, image |-> image,
     pc |-> "start", sel |-> {}, face |-> NoFaceResult]

\* handlers run in a thread pool, as plain `def` endpoints are
CanRunAny(t) ==
    /\ t \in 1..Len(loop.tasks)
    /\ loop.tasks[t].pc # "done"

\* The handlers are `async def` and their bodies hold no await: once the
\* loop has entered one, no other handler runs until it has returned.
CanRun(t) ==
    /\ t \in 1..Len(loop.tasks)
    /\ loop.tasks[t].pc # "done"
    /\ loop.running \in {0, t}

\* task t has moved on
Advance(t, task) ==
    loop' = [tasks |-> [loop.tasks EXCEPT ![t] = task],
             running |-> IF task.pc = "done" THEN 0 ELSE t]

At(t, op, pc) ==
    /\ CanRun(t)
    /\ loop.tasks[t].op = op
    /\ loop.tasks[t].pc = pc

\* a request arrives
Accept(req) ==
    /\ Len(loop.tasks) < MaxTasks
    /\ loop' = [loop EXCEPT !.tasks = Append(@, req)]
    /\ UNCHANGED <<engineVars, dbVars, now, lastOp, label_log, enrolled,
                   calls, removed, envVars>>

\* validate_attendance_token up to `if not student` (app.py 871-899)
validate_attendance_token_check(t) ==
    LET task == loop.tasks[t]
        token == Strip(task.token)
        student_id == token_student_id(token)
        answer(status, reason) ==
            [NoOp EXCEPT !.op = "validate_attendance_token",
                         !.token = task.token, !.status = status,
                         !.reason = reason]
    IN
    /\ At(t, "validate_attendance_token", "start")
    /\ UNCHANGED <<engineVars, dbVars, now, label_log, enrolled, calls,
                   removed, envVars>>
    /\ IF token = <<>> \/ Len(token) < 10
       THEN /\ lastOp' = answer(400, "InvalidTokenFormat")
            /\ Advance(t, [task EXCEPT !.pc = "done"])
       ELSE IF ~validate_student_id(student_id)
       THEN /\ lastOp' = answer(400, "InvalidStudentIdInToken")
            /\ Advance(t, [task EXCEPT !.pc = "done"])
       ELSE IF student_id \notin DOMAIN students
       THEN /\ lastOp' = answer(404, "StudentNotFound")
            /\ Advance(t, [task EXCEPT !.pc = "done"])
       ELSE /\ UNCHANGED lastOp
            /\ Advance(t, [task EXCEPT !.pc = "cleanup", !.sid = student_id])

\* cleanup_expired_sessions(), committed on its own connection (app.py 902)
validate_attendance_token_cleanup(t) ==
    /\ At(t, "validate_attendance_token", "cleanup")
    /\ attendance_sessions' =
          cleanup_expired_sessions(attendance_sessions, now)
    /\ Advance(t, [loop.tasks[t] EXCEPT !.pc = "replace"])
    /\ UNCHANGED <<engineVars, students, attendance, now, lastOp, label_log,
                   enrolled, calls, removed, envVars>>

\* DELETE, INSERT and commit of the new session (app.py 905-920)
validate_attendance_token_replace(t) ==
    LET task == loop.tasks[t]
        answer(status, reason) ==
            [NoOp EXCEPT !.op = "validate_attendance_token",
                         !.token = task.token, !.sid = task.sid,
                         !.status = status, !.reason = reason]
    IN
    /\ At(t, "validate_attendance_token", "replace")
    /\ Advance(t, [task EXCEPT !.pc = "done"])
    /\ UNCHANGED <<engineVars, students, attendance, now, label_log,
                   enrolled, calls, removed, envVars>>
    /\ IF "timedelta" \notin DatetimeImports
       THEN /\ lastOp' = answer(500, "InternalError")
            /\ UNCHANGED attendance_sessions
       ELSE /\ lastOp' = [answer(200, "QRVerified") EXCEPT
                             !.name = students[task.sid]]
            /\ attendance_sessions' =
                 {s \in attendance_sessions : s.student_id # task.sid} \cup
                 {[student_id |-> task.sid,
                   session_token |-> Strip(task.token),
                   qr_verified |-> 1, face_verified |-> 0,
                   expires_at |-> now + TTL]}

\* verify_face up to `if not session` (app.py 952-980)
verify_face_check(t) ==
    LET task == loop.tasks[t]
        valid == valid_sessions(attendance_sessions, task.sid, now)
        answer(status, reason) ==
            [NoOp EXCEPT !.op = "verify_face", !.sid = task.sid,
                         !.image = task.image.image, !.status = status,
                         !.reason = reason]
    IN
    /\ At(t, "verify_face", "start")
    /\ UNCHANGED <<engineVars, dbVars, now, label_log, enrolled, calls,
                   removed, envVars>>
    /\ IF ~validate_student_id(task.sid)
       THEN /\ lastOp' = answer(400, "InvalidStudentId")
            /\ Advance(t, [task EXCEPT !.pc = "done"])
       ELSE IF ~validate_face_image(task.image)
       THEN /\ lastOp' = answer(400, "InvalidImage")
            /\ Advance(t, [task EXCEPT !.pc = "done"])
       ELSE IF valid = {}
       THEN /\ lastOp' = answer(400, "FaceWithoutQR")
            /\ Advance(t, [task EXCEPT !.pc = "done"])
       ELSE /\ UNCHANGED lastOp
            /\ Advance(t, [task EXCEPT !.pc = "face", !.sel = valid])

\* recognize_face_from_image (app.py 983-984)
verify_face_recognize(t) ==
    LET task == loop.tasks[t] IN
    /\ At(t, "verify_face", "face")
    /\ Advance(t, [task EXCEPT
                     !.pc = "commit",
                     !.face = recognize_face_from_image(encode(task.image),
                                  task.sid, Engine, students)])
    /\ UNCHANGED <<engineVars, dbVars, now, lastOp, label_log, enrolled,
                   calls, removed, envVars>>

\* the face result: failure report, or UPDATE, INSERT and commit
\* (app.py 986-1039)
verify_face_commit(t) ==
    LET task == loop.tasks[t]
        result == task.face
        answer(status, reason) ==
            [NoOp EXCEPT !.op = "verify_face", !.sid = task.sid,
                         !.image = task.image.image, !.status = status,
                         !.reason = reason, !.face_checked = TRUE,
                         !.face = result]
    IN
    /\ At(t, "verify_face", "commit")
    /\ Advance(t, [task EXCEPT !.pc = "done"])
    /\ UNCHANGED <<engineVars, students, now, label_log, enrolled, calls,
                   removed, envVars>>
    /\ IF ~result.match
       THEN /\ lastOp' =
                 IF {"student_id", "level"} \subseteq LogSecurityEventParams
                 THEN answer(200, result.message)
                 ELSE answer(500, "InternalError")
            /\ UNCHANGED <<attendance, attendance_sessions>>
       ELSE IF task.sid \notin DOMAIN students
       THEN /\ lastOp' = answer(500, "InternalError")
            /\ UNCHANGED <<attendance, attendance_sessions>>
       ELSE \E session \in task.sel :
            LET updated ==
                    {IF s.student_id = task.sid
                        /\ s.session_token = session.session_token
                     THEN [s EXCEPT !.face_verified = 1] ELSE s :
                     s \in attendance_sessions}
                ins == insert_attendance(attendance,
                          [student_id |-> task.sid,
                           student_name |-> students[task.sid],
                           date |-> DateOf(now), check_in_time |-> now,
                           method |-> "qr_face",
                           confidence_score |-> result.confidence,
                           is_offline |-> 0])
            IN
            IF ins.ok
            THEN /\ attendance_sessions' = updated
                 /\ attendance' = ins.table
                 /\ lastOp' = [answer(200, "AttendanceMarked") EXCEPT
                                  !.ret = TRUE,
                                  !.name = students[task.sid]]
            ELSE /\ lastOp' = answer(500, "InternalError")
                 /\ UNCHANGED <<attendance, attendance_sessions>>

\* the requests the loop is driven with
Requests ==
    {Task("validate_attendance_token", NoId, TokA, BadPayload),
     Task("validate_attendance_token", NoId, TokShort, BadPayload),
     Task("verify_face", IdA, <<>>, StrPayload(ImgA0)),
     Task("verify_face", IdB, <<>>, StrPayload(ImgB0))}

\* upload_student_photo, entered when the loop is free and left before the
\* loop takes anything else
upload_on_loop(studentId, studentName, image) ==
    /\ loop.running = 0
    /\ upload_student_photo(studentId, studentName, image)

LoopNext ==
    \/ upload_on_loop(IdA, "Amrutha", StrPayload(ImgA0))
    \/ \E req \in Requests : Accept(req)
    \/ \E t \in 1..MaxTasks : validate_attendance_token_check(t)
    \/ \E t \in 1..MaxTasks : validate_attendance_token_cleanup(t)
    \/ \E t \in 1..MaxTasks : validate_attendance_token_replace(t)
    \/ \E t \in 1..MaxTasks : verify_face_check(t)
    \/ \E t \in 1..MaxTasks : verify_face_recognize(t)
    \/ \E t \in 1..MaxTasks : verify_face_commit(t)
    \/ \E d \in TickSteps : Tick(d)

SpecLoop == InitDb /\ [][LoopNext]_vars

----------------------------------------------------------------------------
(* backend/security.py, BruteForceProtection, and POST /api/auth/login *)

\* SecurityConfig
MAX_LOGIN_ATTEMPTS == 5
LOCKOUT_DURATION_MINUTES == 15

\* is_locked_out counting the failed attempts of every identifier
is_locked_out_by_anyone(fa, identifier) ==
    \E i \in DOMAIN fa : Len(fa[i]) >= MAX_LOGIN_ATTEMPTS

\* BruteForceProtection.is_locked_out
is_locked_out(fa, identifier) ==
    /\ identifier \in DOMAIN fa
    /\ Len(fa[identifier]) >= MAX_LOGIN_ATTEMPTS

\* BruteForceProtection.get_remaining_lockout_time at time t, in seconds
get_remaining_lockout_time(fa, identifier, t) ==
    IF ~is_locked_out(fa, identifier) THEN 0
    ELSE LET attempts == fa[identifier]
             oldest_attempt ==
                 CHOOSE a \in {attempts[i] : i \in 1..Len(attempts)} :
                    \A i \in 1..Len(attempts) : a <= attempts[i]
             lockout_end == oldest_attempt + LOCKOUT_DURATION_MINUTES * 60
         IN Max(0, lockout_end - t)

\* BruteForceProtection.record_failed_attempt at time t: append, then drop
\* the attempts older than the lockout duration
record_failed_attempt(fa, identifier, t) ==
    LET old == IF identifier \in DOMAIN fa THEN fa[identifier] ELSE <<>>
        cutoff == t - LOCKOUT_DURATION_MINUTES * 60
        kept == SelectSeq(Append(old, t), LAMBDA attempt : attempt > cutoff)
    IN [i \in (DOMAIN fa) \cup {identifier} |->
           IF i = identifier THEN kept ELSE fa[i]]

\* login, "Reset failed attempts on successful login"
reset_failed_attempts(fa, ip) == [i \in (DOMAIN fa) \ {ip} |-> fa[i]]

\* how many of the times are within the lockout duration before t
Recent(times, t) ==
    Cardinality({i \in 1..Len(times) :
                    times[i] > t - LOCKOUT_DURATION_MINUTES * 60})

\* the history once a login of ip has failed at time t
NoteFailure(h, ip, t) ==
    LET all == Append(h[ip].all, t)
        run == Append(h[ip].run, t)
    IN [h EXCEPT ![ip] =
          [all |-> all, run |-> run,
           five |-> h[ip].five \/ Recent(all, t) >= MAX_LOGIN_ATTEMPTS,
           five_run |-> h[ip].five_run
                        \/ Recent(run, t) >= MAX_LOGIN_ATTEMPTS]]

\* POST /api/auth/login from address ip, for a request the rate limiter
\* lets through.  credentials: "bad_email" (not an e-mail address), "wrong"
\* (authenticate_user finds no such user and password) or "right".
login(ip, credentials) ==
    LET answer(status, reason) ==
            [NoOp EXCEPT !.op = "login", !.name = ip, !.status = status,
                         !.reason = reason]
    IN
    /\ calls.login < MaxLogin
    /\ calls' = [calls EXCEPT !.login = @ + 1]
    /\ UNCHANGED <<engineVars, dbVars, now, label_log, enrolled, removed,
                   enhancement, disk, loop>>
    /\ IF is_locked_out(failed_attempts, ip)
       THEN /\ lastOp' = answer(429, "LockedOut")
            /\ UNCHANGED <<failed_attempts, login_hist>>
       ELSE IF credentials = "bad_email"
       THEN /\ lastOp' = answer(400, "InvalidEmail")
            /\ UNCHANGED <<failed_attempts, login_hist>>
       ELSE IF credentials = "wrong"
       THEN /\ lastOp' = answer(401, "InvalidCredentials")
            /\ failed_attempts' =
                  record_failed_attempt(failed_attempts, ip, now)
            /\ login_hist' = NoteFailure(login_hist, ip, now)
       ELSE /\ lastOp' = answer(200, "LoggedIn")
            /\ failed_attempts' = reset_failed_attempts(failed_attempts, ip)
            /\ login_hist' = [login_hist EXCEPT ![ip].run = <<>>]

LoginInputs ==
    {<<"10.0.0.1", "wrong">>, <<"10.0.0.1", "right">>,
     <<"10.0.0.1", "bad_email">>, <<"10.0.0.2", "wrong">>}

\* ten minutes
LoginTicks == {600}

LoginNext ==
    \/ \E in \in LoginInputs : login(in[1], in[2])
    \/ \E d \in LoginTicks : Tick(d)

SpecLogin == Init /\ [][LoginNext]_vars

----------------------------------------------------------------------------
(* Offline batches around the configured size *)

\* a batch of n copies of one record
Repeat(record, n) == [i \in 1..n |-> record]

\* batches of one record, of exactly MAX_OFFLINE_RECORDS_PER_BATCH records
\* and of one more
LongBatches ==
    {Repeat([studentId |-> IdA, image |-> StrPayload(ImgA0),
             timestamp |-> Unparsable], n) :
        n \in {1, MAX_OFFLINE_RECORDS_PER_BATCH,
               MAX_OFFLINE_RECORDS_PER_BATCH + 1}}

LongNext ==
    \/ \E in \in UploadInputs : upload_student_photo(in[1], in[2], in[3])
    \/ \E records \in LongBatches : sync_offline_attendance(records)
    \/ \E d \in TickSteps : Tick(d)

SpecLong == Init /\ [][LongNext]_vars

----------------------------------------------------------------------------
(* The image conditioning under either configuration *)

\* The server started with either setting of APPLY_HISTOGRAM_EQUALIZATION in
\* its environment, driven with pictures of every brightness.
LightImages == {StrPayload(ImgA0), StrPayload(ImgDim), StrPayload(ImgDark)}

LightRecords ==
    {[studentId |-> IdA, image |-> StrPayload(ImgA0),
      timestamp |-> [ok |-> TRUE, date |-> 0, time |-> 30]],
     [studentId |-> IdA, image |-> StrPayload(ImgDark),
      timestamp |-> Unparsable]}

LightBatches == UNION {[1..n -> LightRecords] : n \in 0..MaxBatch}

InitLight ==
    /\ known_encodings = <<>>
    /\ label_map = <<>>
    /\ next_label = 0
    /\ model_trained = FALSE
    /\ recognizer = <<>>
    /\ encodings_file = NoFile
    /\ students = [s \in {IdSeed1, IdSeed2, IdSeed3} |->
                      IF s = IdSeed1 THEN "Amrutha M"
                      ELSE IF s = IdSeed2 THEN "C M Shalini"
                      ELSE "Vismaya L"]
    /\ attendance = {}
    /\ attendance_sessions \in {{}, {SessionA}}
    /\ now = 0
    /\ lastOp = NoOp
    /\ label_log = <<>>
    /\ enrolled = [s \in AllIds |-> <<>>]
    /\ calls = [enroll |-> 0, remove |-> 0, upload |-> 0, tick |-> 0,
                login |-> 0, restart |-> 0]
    /\ removed = {}
    /\ enhancement \in BOOLEAN
    /\ loop = NoLoop
    /\ disk = "ok"
    /\ failed_attempts = <<>>
    /\ login_hist = NoLogins

LightNext ==
    \/ \E in \in UploadInputs : upload_student_photo(in[1], in[2], in[3])
    \/ \E image \in LightImages : verify_face(IdA, image)
    \/ \E records \in LightBatches : sync_offline_attendance(records)
    \/ \E d \in TickSteps : Tick(d)

SpecLight == InitLight /\ [][LightNext]_vars

----------------------------------------------------------------------------
(* Properties of the engine, under SpecEngine and SpecShared *)

Min(a, b) == IF a <= b THEN a ELSE b

\* C8: every identity's template list has between 1 and 5 entries and is, in
\* order, the last min(n, 5) of the n templates enrolled for it.
C8_LastFiveTemplates ==
    \A k \in 1..Len(known_encodings) :
        LET sid == known_encodings[k].sid
            samples == known_encodings[k].samples
            hist == enrolled[sid]
        IN /\ Len(samples) >= 1
           /\ Len(samples) <= 5
           /\ Len(samples) = Min(Len(hist), 5)
           /\ \A j \in 1..Len(samples) :
                 samples[j] = hist[Len(hist) - Len(samples) + j]

\* C8 witness: a sixth template was just enrolled for one identity, which
\* was enrolled with two different templates.
C8_Witness ==
    /\ lastOp.op = "register_face"
    /\ lastOp.ret
    /\ Len(enrolled[IdA]) = 6
    /\ enrolled[IdA][1] # enrolled[IdA][6]

\* C9: no label value is handed out twice, the label of an identity that
\* stays enrolled does not change, every label in use is below next_label,
\* and next_label never decreases.
C9_LabelsNeverReused ==
    [][/\ \A i, j \in 1..Len(label_log') :
             i # j => label_log'[i] # label_log'[j]
       /\ next_label' >= next_label
       /\ \A s \in (DOMAIN label_map) \cap (DOMAIN label_map') :
             label_map'[s] = label_map[s]
       /\ \A s \in DOMAIN label_map' : label_map'[s] < next_label']_vars

\* C9 witness: an identity was removed and identities were enrolled
\* afterwards, so that three labels have been handed out.
C9_Witness ==
    /\ calls.remove = 1
    /\ Len(label_log) = 3
    /\ DOMAIN label_map = {IdA, IdB}

\* C10: once register_face or remove_student has returned, the recognizer
\* holds exactly the training data of the current templates and labels.
C10_ModelMatchesCorpus ==
    lastOp.op \in {"register_face", "remove_student"} =>
        recognizer = TrainingData(known_encodings, label_map)

\* C11: after register_face or remove_student has returned, the model is
\* trained if and only if some identity has templates, and with no identity
\* left every recognize_face call answers that the model is untrained.
C11_TrainedIffTemplates ==
    /\ lastOp.op \in {"register_face", "remove_student"} =>
          (model_trained <=> known_encodings # <<>>)
    /\ (lastOp.op = "recognize_face" /\ known_encodings = <<>>) =>
          lastOp.result.message = "NoFacesRegistered"

\* C12: a recognize_face call never names an identity that was removed and
\* has not been enrolled since, neither as the match nor as the tentative
\* identity of a low-confidence answer.
C12_RemovedNeverReturned ==
    lastOp.op = "recognize_face" => lastOp.result.student_id \notin removed

\* C12 witness: recognize_face ran on the picture the only identity was
\* enrolled with after that identity was removed; the recognizer predicted
\* the removed label, which no identity has any more.
C12_Witness ==
    /\ lastOp.op = "recognize_face"
    /\ removed = {IdA}
    /\ lastOp.image = ImgA0
    /\ lastOp.result.message = "StudentNotFound"

\* C13 as stated: recognize_face on an image with no face answers NoFace
\* whatever the state of the model.
C13_NoFaceAlways ==
    (lastOp.op = "recognize_face" /\ lastOp.image.faces = 0) =>
        lastOp.result.message = "NoFace"

\* C13 amended: recognize_face on an image with no face answers NoFace when
\* the model has been trained, and that no faces are registered when it has
\* not.
C13_NoFaceWhenTrained ==
    (lastOp.op = "recognize_face" /\ lastOp.image.faces = 0) =>
        lastOp.result.message =
            IF model_trained THEN "NoFace" ELSE "NoFacesRegistered"

\* C13 witness: recognize_face answered NoFace with a trained model.
C13_Witness ==
    /\ lastOp.op = "recognize_face"
    /\ lastOp.image.faces = 0
    /\ model_trained
    /\ lastOp.result.message = "NoFace"

----------------------------------------------------------------------------
(* Properties of the session endpoints, under Spec and SpecDb *)

\* the session check a verify_face call for sid passes in the current state
HasValidSession(sid) ==
    \E s \in attendance_sessions :
        /\ s.student_id = sid
        /\ s.qr_verified = 1
        /\ s.face_verified = 0
        /\ s.expires_at > now

\* the sessions of a student
SessionsOf(sessions, sid) == {s \in sessions : s.student_id = sid}

\* the request passed verify_face's input validation
PassedValidation(op) == op.reason \notin {"InvalidStudentId", "InvalidImage"}

\* what the classifier makes of an image that is bright enough
Classified(image) == recognize_face(Engine, image, 60)
BrightEnough(image) == image.brightness >= 50

FaceFailures ==
    {"FaceRecognitionError", "LOW_LIGHT_DETECTED", "NoFacesRegistered",
     "NoFace", "MultipleFaces", "StudentNotFound", "LowConfidence",
     "Mismatch", "StudentNotInDatabase"}

C30_RefusedOpenLeavesSessions ==
    [][lastOp'.op = "validate_attendance_token" =>
        LET token == Strip(lastOp'.token)
            sid == token_student_id(token)
            malformed == Len(token) < 10 \/ ~validate_student_id(sid)
        IN /\ malformed =>
                 /\ lastOp'.status = 400
                 /\ attendance_sessions' = attendance_sessions
           /\ (~malformed /\ sid \notin DOMAIN students) =>
                 /\ lastOp'.status = 404
                 /\ attendance_sessions' = attendance_sessions]_vars

\* C30 witness: validate_attendance_token was refused for a student that
\* does not exist while an expired session is stored, which is still there.
C30_Witness ==
    /\ lastOp.op = "validate_attendance_token"
    /\ lastOp.status = 404
    /\ \E s \in attendance_sessions : s.expires_at < now

\* the rows of a session table, by their key
SessionKeys(sessions) ==
    {<<s.student_id, s.session_token>> : s \in sessions}

OpenedFor(sid) ==
    /\ lastOp.op = "validate_attendance_token"
    /\ Len(Strip(lastOp.token)) >= 10
    /\ sid = token_student_id(Strip(lastOp.token))
    /\ validate_student_id(sid)
    /\ sid \in DOMAIN students

C7_OpenSessionStoresSession ==
    \A sid \in AllIds :
        OpenedFor(sid) =>
           /\ lastOp.status = 200
           /\ lastOp.sid = sid
           /\ lastOp.name = students[sid]
           /\ [student_id |-> sid, session_token |-> Strip(lastOp.token),
               qr_verified |-> 1, face_verified |-> 0,
               expires_at |-> now + 60] \in attendance_sessions

\* C39: every student in the students table can take the two steps.  A
\* token of fewer than 15 characters is taken as the student id whole, so
\* the token of a stored student is the id itself: validate_attendance_token
\* called with it answers 200 with that id and stores a session of that
\* student with qr_verified = 1 and face_verified = 0.  A verify_face call
\* for a student in the table who has a valid session, with a picture the
\* classifier matches to that student, answers 200 and leaves an attendance
\* row of the student for the day.
C39_EveryStudentCanCheckIn ==
    [][/\ (/\ lastOp'.op = "validate_attendance_token"
            /\ Strip(lastOp'.token) \in DOMAIN students) =>
              /\ token_student_id(Strip(lastOp'.token)) = Strip(lastOp'.token)
              /\ lastOp'.status = 200
              /\ lastOp'.sid = Strip(lastOp'.token)
              /\ \E s \in attendance_sessions' :
                    /\ s.student_id = Strip(lastOp'.token)
                    /\ s.qr_verified = 1
                    /\ s.face_verified = 0
       /\ (/\ lastOp'.op = "verify_face"
            /\ lastOp'.sid \in DOMAIN students
            /\ HasValidSession(lastOp'.sid)
            /\ BrightEnough(lastOp'.image)
            /\ Classified(lastOp'.image).match
            /\ Classified(lastOp'.image).student_id = lastOp'.sid) =>
              /\ lastOp'.status = 200
              /\ \E r \in attendance' :
                    r.student_id = lastOp'.sid /\ r.date = DateOf(now)]_vars

\* the format of the ids seed_initial_students stores: five digits, "CIT",
\* four digits
SeededFormat(student_id) ==
    /\ Len(student_id) = 12
    /\ IsDigits(SubSeq(student_id, 1, 5))
    /\ SubSeq(student_id, 6, 8) = <<"C", "I", "T">>
    /\ IsDigits(SubSeq(student_id, 9, 12))

\* C26: verify_face refuses a student id as invalid exactly when the id is
\* not of the format of the seeded ids, and it refuses such an id with 400
\* before any session lookup or face check.
C26_IdValidationMatchesSeededFormat ==
    lastOp.op = "verify_face" =>
        /\ lastOp.reason = "InvalidStudentId" <=> ~SeededFormat(lastOp.sid)
        /\ ~SeededFormat(lastOp.sid) =>
              /\ lastOp.status = 400
              /\ ~lastOp.face_checked

\* register_face has just returned True and recognize_face is called on the
\* very image it enrolled
EnrollThenClassify ==
    /\ lastOp.op = "register_face"
    /\ lastOp.ret
    /\ lastOp'.op = "recognize_face"
    /\ lastOp'.image = lastOp.image

\* the identities holding a template equal to the patch, as positions in
\* known_encodings
Holders(enc, patch) ==
    {i \in 1..Len(enc) :
        \E j \in 1..Len(enc[i].samples) : enc[i].samples[j] = patch}

\* C21 as stated: recognize_face on the image register_face has just
\* enrolled for an identity matches that identity with a confidence of at
\* least the threshold.
C21_EnrolledImageMatches ==
    [][EnrollThenClassify =>
        /\ lastOp'.result.match
        /\ lastOp'.result.student_id = lastOp.sid
        /\ lastOp'.result.confidence >= lastOp'.threshold]_vars

\* C21 amended: recognize_face on the image register_face has just enrolled
\* answers a match with confidence 100, at least the threshold; the identity
\* matched is the first one, in enrollment order, that holds a template
\* equal to the image's patch, which is the identity just enrolled when no
\* other identity holds such a template.
C21_EnrolledImageMatchesFirstHolder ==
    [][EnrollThenClassify =>
        LET holders == Holders(known_encodings,
                               extract_face_features(lastOp.image))
            first == CHOOSE i \in holders : \A k \in holders : i <= k
        IN /\ lastOp'.result.match
           /\ lastOp'.result.confidence = 100
           /\ lastOp'.result.confidence >= lastOp'.threshold
           /\ holders # {}
           /\ lastOp'.result.student_id = known_encodings[first].sid
           /\ (\A i \in holders : known_encodings[i].sid = lastOp.sid)
                 => lastOp'.result.student_id = lastOp.sid]_vars

\* C21 witness: an identity was enrolled as the second one, with an image no
\* other identity was enrolled with, and recognize_face on that image has
\* matched it.
C21_Witness ==
    /\ lastOp.op = "recognize_face"
    /\ lastOp.image = ImgB0
    /\ lastOp.result.match
    /\ lastOp.result.student_id = IdB
    /\ Len(known_encodings) = 2
    /\ known_encodings[2].sid = IdB
    /\ known_encodings[2].samples[Len(known_encodings[2].samples)] = 100

\* C22: register_face and remove_student do not return True when the save
\* of the templates and labels failed: after either has returned True the
\* pickle file holds the current templates, label map and next label.
C22_SaveFailureSurfaced ==
    (lastOp.op \in {"register_face", "remove_student"} /\ lastOp.ret) =>
        encodings_file = Pickled(Engine)

\* C23: a fresh engine constructed on the pickle file, the file holding
\* what the running engine last saved, has the templates, label map, next
\* label, trained flag and training corpus of the running engine.
C23_RestartRoundTrip ==
    [][(lastOp'.op = "restart" /\ encodings_file = Pickled(Engine)) =>
        /\ known_encodings' = known_encodings
        /\ label_map' = label_map
        /\ next_label' = next_label
        /\ model_trained' = model_trained
        /\ recognizer' = recognizer]_vars

\* C25: remove_student for an identity that has no templates returns False
\* and leaves templates, label map, next label, model and pickle file as
\* they were; it returns True only for an identity that has templates.
C25_RemoveUnknownFails ==
    [][lastOp'.op = "remove_student" =>
        /\ lastOp'.ret <=> lastOp'.sid \in Keys(known_encodings)
        /\ lastOp'.sid \notin Keys(known_encodings) =>
              UNCHANGED engineVars]_vars

\* C38: after any sequence of register_face and remove_student calls the
\* students that have templates are the students that have a label, no two
\* students have the same label, every label is below next_label, and no
\* student in known_encodings has an empty list of templates.
C38_EngineStructure ==
    /\ Keys(known_encodings) = DOMAIN label_map
    /\ \A i, j \in 1..Len(known_encodings) :
          known_encodings[i].sid = known_encodings[j].sid => i = j
    /\ \A s1, s2 \in DOMAIN label_map :
          label_map[s1] = label_map[s2] => s1 = s2
    /\ \A sid \in DOMAIN label_map :
          label_map[sid] \in 0..(next_label - 1)
    /\ \A i \in 1..Len(known_encodings) :
          known_encodings[i].samples # <<>>

\* C38 witness: a student was removed and enrolled again while another
\* stayed enrolled, so the labels in use are 1 and 2 and next_label is 3.
C38_Witness ==
    /\ calls.remove = 1
    /\ Cardinality(DOMAIN label_map) = 2
    /\ next_label = 3
    /\ \E sid \in DOMAIN label_map : label_map[sid] = 2
    /\ \A sid \in DOMAIN label_map : label_map[sid] # 0

\* the raw LBPH distance recognize_face gets for an image in this state
RawDistance(image) ==
    predict(recognizer, extract_face_features(image)).confidence

\* C37: the confidence recognize_face reports is between 0 and 100; when
\* the recognizer has predicted, a distance of 0 gives 100, a distance of
\* 100 or more gives 0, and an image at a greater or equal distance never
\* gets a greater confidence.  Every confidence_score in the attendance
\* table is between 0 and 100.
C37_ConfidenceClamped ==
    /\ lastOp.op = "recognize_face" =>
          /\ lastOp.result.confidence \in 0..100
          /\ lastOp.result.message \in
                {"LowConfidence", "Recognized", "StudentNotFound"} =>
                LET d == RawDistance(lastOp.image) IN
                /\ d = 0 => lastOp.result.confidence = 100
                /\ d >= 100 => lastOp.result.confidence = 0
                /\ \A other \in SharedImages :
                      (detect_faces(other) = 1 /\ RawDistance(other) >= d)
                         => recognize_face(Engine, other,
                                           lastOp.threshold).confidence
                               <= lastOp.result.confidence
    /\ \A r \in attendance : r.confidence_score \in 0..100

\* C37 witness: recognize_face has predicted a distance above 100 and
\* reported confidence 0, in a state where another image is nearer than 100.
C37_Witness ==
    /\ lastOp.op = "recognize_face"
    /\ model_trained
    /\ RawDistance(lastOp.image) > 100
    /\ lastOp.result.confidence = 0
    /\ \E other \in SharedImages :
          /\ RawDistance(other) \in 1..99
          /\ recognize_face(Engine, other, lastOp.threshold).confidence
                = 100 - RawDistance(other)

C19_ClassifySeesRetrainedModel ==
    lastOp.op = "recognize_face" =>
        recognizer = TrainingData(known_encodings, label_map)

----------------------------------------------------------------------------
(* Properties of the offline synchronisation *)

\* C15: the answer to a batch of N records has one outcome per record, in
\* order, total = N and success + failed = N, where success is the number
\* of records that added an attendance row and failed the number of those
\* that did not.
C15_BatchSummary ==
    [][lastOp'.op = "sync_offline_attendance" =>
        LET N == Len(lastOp'.batch)
            ok == {i \in 1..N : lastOp'.results[i].success}
        IN /\ lastOp'.status = 200
           /\ Len(lastOp'.results) = N
           /\ \A i \in 1..N :
                 lastOp'.results[i].studentId = lastOp'.batch[i].studentId
           /\ lastOp'.summary.total = N
           /\ lastOp'.summary.success + lastOp'.summary.failed = N
           /\ lastOp'.summary.success = Cardinality(ok)
           /\ lastOp'.summary.success = Cardinality(attendance' \ attendance)
           /\ lastOp'.summary.failed = N - Cardinality(attendance' \ attendance)
           /\ attendance \subseteq attendance']_vars

\* C15 witness: a batch of two records was answered, both failed.
C15_Witness ==
    /\ lastOp.op = "sync_offline_attendance"
    /\ Len(lastOp.batch) = 2
    /\ lastOp.batch[1] # lastOp.batch[2]
    /\ lastOp.summary.failed = 2

PassesGate(image) ==
    \/ image.brightness >= LOW_LIGHT_THRESHOLD
    \/ enhancement /\ image.enhanced >= LOW_LIGHT_THRESHOLD

\* what the classifier makes of an offline record's picture
ItemClassified(record) ==
    recognize_face(Engine, record.image.image, ConfidenceThreshold)

\* the classifier matches the record's picture to a student in the table
ItemRecognised(record) ==
    /\ record.image.wellformed
    /\ PassesGate(record.image.image)
    /\ ItemClassified(record).match
    /\ ItemClassified(record).student_id \in DOMAIN students

\* the date and the time an offline record resolves to at time t
ResolvedDate(record, t) ==
    IF record.timestamp.ok THEN record.timestamp.date ELSE DateOf(t)
ResolvedTime(record, t) ==
    IF record.timestamp.ok THEN record.timestamp.time ELSE t

\* C35: an offline record whose picture the classifier matches to the
\* record's student, and which is the first of that student and resolved
\* date (no attendance row and no earlier record of the batch has them), is
\* answered as a success and adds an attendance row with the offline method
\* tag, is_offline = 1, the student's id and name, the confidence, and the
\* date and time of the record's timestamp, or the server's when the
\* timestamp does not parse.
C35_OfflineRowWritten ==
    [][lastOp'.op = "sync_offline_attendance" =>
        \A i \in 1..Len(lastOp'.batch) :
           LET record == lastOp'.batch[i]
               sid == record.studentId
               day == ResolvedDate(record, now)
               first ==
                   /\ \A r \in attendance :
                         ~(r.student_id = sid /\ r.date = day)
                   /\ \A j \in 1..(i - 1) :
                         ~(/\ lastOp'.batch[j].studentId = sid
                           /\ ResolvedDate(lastOp'.batch[j], now) = day)
           IN (/\ ItemRecognised(record)
               /\ ItemClassified(record).student_id = sid
               /\ first) =>
                 /\ lastOp'.results[i].success
                 /\ [student_id |-> sid,
                     student_name |-> students[sid],
                     date |-> day,
                     check_in_time |-> ResolvedTime(record, now),
                     method |-> "offline",
                     confidence_score |-> ItemClassified(record).confidence,
                     is_offline |-> 1] \in attendance']_vars

\* C36: sync_offline_attendance leaves the session table as it was, asks no
\* session of a record's student (a record the classifier matches to its
\* student, sent alone to an empty attendance table, is answered as a
\* success with or without one), and a record the classifier matches to
\* another student is answered with the mismatch reason and adds no
\* attendance row.
C36_OfflineNeedsNoSession ==
    [][lastOp'.op = "sync_offline_attendance" =>
        /\ attendance_sessions' = attendance_sessions
        /\ \A i \in 1..Len(lastOp'.batch) :
              LET record == lastOp'.batch[i]
                  sid == record.studentId
              IN ItemRecognised(record) =>
                 IF ItemClassified(record).student_id = sid
                 THEN (lastOp'.summary.total = 1 /\ attendance = {})
                         => lastOp'.results[i].success
                 ELSE /\ ~lastOp'.results[i].success
                      /\ lastOp'.results[i].message = "Mismatch"
                      /\ lastOp'.summary.total = 1
                            => attendance' = attendance]_vars

----------------------------------------------------------------------------
(* Properties of concurrent requests, under SpecLoop *)

\* the tasks whose handler has begun and not returned
InHandler(l) ==
    {t \in 1..Len(l.tasks) : l.tasks[t].pc \notin {"start", "done"}}

----------------------------------------------------------------------------
(* Properties of the login guard, under SpecLogin *)

C40_LockoutIsTemporary ==
    /\ \A ip \in Clients :
          get_remaining_lockout_time(failed_attempts, ip, now) = 0
             => ~is_locked_out(failed_attempts, ip)
    /\ (lastOp.op = "login" /\ lastOp.status = 429) =>
          get_remaining_lockout_time(failed_attempts, lastOp.name, now) > 0

----------------------------------------------------------------------------
(* Properties of the image conditioning, under SpecLight *)

\* C14: with enhancement disabled, a verify_face call that reaches the face
\* check and every offline item whose picture is darker than the threshold
\* fail with the low-light reason carrying the measured brightness, and
\* recognize_face is not run on the picture.
C14_LowLightRejected ==
    [][~enhancement =>
        /\ (/\ lastOp'.op = "verify_face"
            /\ PassedValidation(lastOp')
            /\ HasValidSession(lastOp'.sid)
            /\ ~BrightEnough(lastOp'.image))
           => (/\ lastOp'.face.message = "LOW_LIGHT_DETECTED"
               /\ lastOp'.face.brightness = lastOp'.image.brightness
               /\ ~lastOp'.face.classified
               /\ attendance' = attendance)
        /\ lastOp'.op = "sync_offline_attendance" =>
              \A i \in 1..Len(lastOp'.batch) :
                 ~BrightEnough(lastOp'.batch[i].image.image) =>
                    /\ ~lastOp'.results[i].success
                    /\ lastOp'.results[i].message = "LOW_LIGHT_DETECTED"]_vars

====
